---- MODULE Spec2Model ----
(***************************************************************************)
(* School Merchandise Store API (src/main.py, src/schemas.py).             *)
(*                                                                         *)
(* State: the two document collections "merchandiseproduct" and "order",   *)
(* the request handled last, its HTTP response, and the database calls the *)
(* handler issued.  One action per handler; a handler runs to completion.  *)
(*                                                                         *)
(* Conventions                                                             *)
(*  - Optional[str] is a sequence of length <= 1: <<>> is None, <<s>> is   *)
(*    the string s; a string is a sequence of one-character strings.       *)
(*  - A product_id string is [hex |-> n, upper |-> b]: n > 0 is a string   *)
(*    of 24 hex digits denoting ObjectId n, written in lowercase (b FALSE) *)
(*    or with uppercase digits (b TRUE); n = 0 is any other string.        *)
(*  - Money is a float in the code.  The prices and quantities used here   *)
(*    are small integers, which binary floating point adds and multiplies  *)
(*    exactly, so integer arithmetic is the code's arithmetic.             *)
(*  - Product fields description, images, in_stock and the order's notes   *)
(*    are copied through unread and are left out.                          *)
(***************************************************************************)
EXTENDS FiniteSets, Integers, Sequences, TLC

VARIABLES products, orders, req, resp, dbCalls

vars == <<products, orders, req, resp, dbCalls>>

\* ---------------------------------------------------------------- bounds
MaxProducts == 2
MaxOrders == 2
MaxItems == 2

\* ------------------------------------------------------------- constants
EMBROIDERY_FEE_PER_ITEM == 8

allowed_cats == {"hoodie", "beanie", "shirt", "trackpants"}

allowed_colors == {"green", "black", "yellow", "white"}

\* ------------------------------------------------------ Optional and str
None == <<>>

Some(s) == <<s>>

Whitespace == {" ", "\t", "\n"}

\* str.lstrip(): drop leading whitespace
RECURSIVE lstrip(_)
lstrip(s) ==
  IF s = <<>> THEN <<>>
  ELSE IF Head(s) \in Whitespace THEN lstrip(Tail(s)) ELSE s

\* str.rstrip(): drop trailing whitespace
RECURSIVE rstrip(_)
rstrip(s) ==
  IF s = <<>> THEN <<>>
  ELSE IF s[Len(s)] \in Whitespace THEN rstrip(SubSeq(s, 1, Len(s) - 1)) ELSE s

\* str.strip()
strip(s) == rstrip(lstrip(s))

\* ------------------------------------------------------------- ObjectId
Malformed == [hex |-> 0, upper |-> FALSE]

\* bson.ObjectId.is_valid(s): s is 24 hex digits, in either case
ObjectId_is_valid(s) == s.hex > 0

\* bson.ObjectId(s): the identifier the digits denote
ObjectId(s) == s.hex

\* str(ObjectId): always lowercase digits
Str(oid) == [hex |-> oid, upper |-> FALSE]

\* ------------------------------------------------------- document store
Range(s) == {s[i] : i \in 1..Len(s)}

\* create_document(collection_name, data): insert the document under a fresh
\* identifier and return the identifier as a string
create_document(collection, data) ==
  LET new_id == Len(collection) + 1
  IN  [collection |-> Append(collection, [_id |-> new_id] @@ data),
       id |-> Str(new_id)]

\* db["merchandiseproduct"].find({"_id": {"$in": ids}})
find_in(collection, ids) == {d \in Range(collection) : d._id \in Range(ids)}

\* ---------------------------------------------------------------- schemas
\* the schema without its ge=0 constraint
MerchandiseProductAnyPrice(p) == TRUE

\* MerchandiseProduct: base_price has ge=0
MerchandiseProduct(p) == p.base_price >= 0

\* OrderItem: quantity ge=1; unit_price, embroidery_fee, line_total ge=0
OrderItem(it) ==
  /\ it.quantity >= 1
  /\ it.unit_price >= 0
  /\ it.embroidery_fee >= 0
  /\ it.line_total >= 0

\* Order: sub_total, embroidery_total, grand_total ge=0
Order(o) ==
  /\ o.sub_total >= 0
  /\ o.embroidery_total >= 0
  /\ o.grand_total >= 0

\* -------------------------------------------------------------- responses
Created(body) == [status |-> 201, body |-> body]

\* raise HTTPException(status_code=400, detail=...)
HTTPException(detail) == [status |-> 400, body |-> [detail |-> detail]]

\* an exception the handler does not catch (KeyError, pydantic
\* ValidationError): the framework answers 500
ServerError(exc) == [status |-> 500, body |-> [detail |-> <<exc>>]]

NoResponse == [status |-> 0, body |-> [detail |-> <<>>]]

\* ---------------------------------------------------------- create_product
create_product(catalog, payload) ==
  IF payload.category \notin allowed_cats
  THEN [resp |-> HTTPException(<<"Invalid category">>),
        products |-> catalog, dbCalls |-> <<>>]
  ELSE IF \E i \in 1..Len(payload.colors) : payload.colors[i] \notin allowed_colors
  THEN [resp |-> HTTPException(<<"One or more invalid colors">>),
        products |-> catalog, dbCalls |-> <<>>]
  ELSE IF ~MerchandiseProduct(payload)
  THEN [resp |-> ServerError("ValidationError"),
        products |-> catalog, dbCalls |-> <<>>]
  ELSE LET ins == create_document(catalog, payload)
       IN  [resp |-> Created([id |-> ins.id]),
            products |-> ins.collection, dbCalls |-> <<"insert_one">>]

\* ------------------------------------------------------------ create_order
\* the loop body checking the quantity before the colour
CheckItemQuantityFirst(it) ==
  IF it.quantity < 1 THEN <<"Quantity must be >= 1">>
  ELSE IF it.color \notin allowed_colors THEN <<"Invalid color", it.color>>
  ELSE <<>>

\* the loop body without the colour check
CheckItemColorUnchecked(it) ==
  IF it.quantity < 1 THEN <<"Quantity must be >= 1">>
  ELSE <<>>

\* the body of the validation loop for one item: colour, then quantity
CheckItem(it) ==
  IF it.color \notin allowed_colors THEN <<"Invalid color", it.color>>
  ELSE IF it.quantity < 1 THEN <<"Quantity must be >= 1">>
  ELSE <<>>

\* for it in payload.items: the first failure raises
RECURSIVE ValidateItems(_, _)
ValidateItems(items, i) ==
  IF i > Len(items) THEN <<>>
  ELSE IF CheckItem(items[i]) # <<>> THEN CheckItem(items[i])
  ELSE ValidateItems(items, i + 1)

\* ids = [ObjectId(i.product_id) for i in items if ObjectId.is_valid(i.product_id)]
RECURSIVE ValidIds(_)
ValidIds(items) ==
  IF items = <<>> THEN <<>>
  ELSE IF ObjectId_is_valid(Head(items).product_id)
       THEN <<ObjectId(Head(items).product_id)>> \o ValidIds(Tail(items))
       ELSE ValidIds(Tail(items))

\* products_map[str(doc["_id"])] = doc, for every document found
ProductsMap(catalog, ids) ==
  LET found == find_in(catalog, ids)
  IN  [k \in {Str(d._id) : d \in found} |-> CHOOSE d \in found : Str(d._id) = k]

\* the fee charged for any non-empty text, without strip()
embroidery_fee_unstripped(it) ==
  IF it.embroidery_text # None /\ it.embroidery_text[1] # <<>>
  THEN EMBROIDERY_FEE_PER_ITEM
  ELSE 0

\* EMBROIDERY_FEE_PER_ITEM if (it.embroidery_text and it.embroidery_text.strip()) else 0.0
embroidery_fee(it) ==
  IF /\ it.embroidery_text # None
     /\ it.embroidery_text[1] # <<>>
     /\ strip(it.embroidery_text[1]) # <<>>
  THEN EMBROIDERY_FEE_PER_ITEM
  ELSE 0

\* the fee added once per line instead of once per unit
line_total_fee_once(unit, fee, quantity) == unit * quantity + fee

\* line_total = (unit + embroidery_fee) * it.quantity
line_total(unit, fee, quantity) == (unit + fee) * quantity

\* the accumulation without the quantity
AddSubTotalNoQuantity(sub_total, unit, quantity) == sub_total + unit

\* sub_total += unit * it.quantity
AddSubTotal(sub_total, unit, quantity) == sub_total + unit * quantity

\* embroidery_total += embroidery_fee * it.quantity
AddEmbroideryTotal(embroidery_total, fee, quantity) == embroidery_total + fee * quantity

\* order_items.insert(0, OrderItem(...))
PrependItem(order_items, item) == <<item>> \o order_items

\* order_items.append(OrderItem(...))
AppendItem(order_items, item) == Append(order_items, item)

\* the pricing loop from item i on; exc names the exception that ended it
RECURSIVE PriceItems(_, _, _, _)
PriceItems(items, products_map, i, acc) ==
  IF i > Len(items) THEN acc
  ELSE
    LET it == items[i]
    IN  IF it.product_id \notin DOMAIN products_map
        THEN [acc EXCEPT !.exc = "KeyError"]
        ELSE
          LET p == products_map[it.product_id]
              unit == p.base_price
              fee == embroidery_fee(it)
              item == [product_id |-> it.product_id,
                       title |-> p.title,
                       category |-> p.category,
                       color |-> it.color,
                       quantity |-> it.quantity,
                       unit_price |-> unit,
                       embroidery_text |-> it.embroidery_text,
                       embroidery_fee |-> fee,
                       line_total |-> line_total(unit, fee, it.quantity)]
          IN  IF ~OrderItem(item)
              THEN [acc EXCEPT !.exc = "ValidationError"]
              ELSE PriceItems(items, products_map, i + 1,
                     [order_items |-> AppendItem(acc.order_items, item),
                      sub_total |-> AddSubTotal(acc.sub_total, unit, it.quantity),
                      embroidery_total |->
                        AddEmbroideryTotal(acc.embroidery_total, fee, it.quantity),
                      exc |-> ""])

\* grand_total = sub_total + embroidery_total
grand_total(sub_total, embroidery_total) == sub_total + embroidery_total

\* the order written over the collection's only document
PersistOrderOverwrite(collection, order) ==
  [collection |-> <<[_id |-> 1] @@ order>>, id |-> Str(1)]

\* order_id = create_document("order", order)
PersistOrder(collection, order) == create_document(collection, order)

create_order(catalog, collection, payload) ==
  LET items == payload.items
      invalid == ValidateItems(items, 1)
      ids == ValidIds(items)
      products_map == ProductsMap(catalog, ids)
      priced == PriceItems(items, products_map, 1,
                  [order_items |-> <<>>, sub_total |-> 0,
                   embroidery_total |-> 0, exc |-> ""])
      order == [customer_name |-> payload.customer_name,
                customer_email |-> payload.customer_email,
                items |-> priced.order_items,
                sub_total |-> priced.sub_total,
                embroidery_total |-> priced.embroidery_total,
                grand_total |-> grand_total(priced.sub_total, priced.embroidery_total)]
  IN  IF invalid # <<>>
      THEN [resp |-> HTTPException(invalid), orders |-> collection, dbCalls |-> <<>>]
      ELSE IF Len(ids) # Len(items)
      THEN [resp |-> HTTPException(<<"Invalid product id">>),
            orders |-> collection, dbCalls |-> <<>>]
      ELSE IF Cardinality(DOMAIN products_map) # Len(items)
      THEN [resp |-> HTTPException(<<"One or more products not found">>),
            orders |-> collection, dbCalls |-> <<"find">>]
      ELSE IF priced.exc # ""
      THEN [resp |-> ServerError(priced.exc),
            orders |-> collection, dbCalls |-> <<"find">>]
      ELSE IF ~Order(order)
      THEN [resp |-> ServerError("ValidationError"),
            orders |-> collection, dbCalls |-> <<"find">>]
      ELSE LET ins == PersistOrder(collection, order)
           IN  [resp |-> Created([id |-> ins.id, grand_total |-> order.grand_total]),
                orders |-> ins.collection, dbCalls |-> <<"find", "insert_one">>]

\* ------------------------------------------------------------------ inputs
\* POST /api/products bodies: valid and invalid category, price and colours
ProductPayloads ==
  [title : {"Hoodie"},
   category : {"hoodie", "scarf"},
   base_price : {-5, 20},
   colors : {<<"black">>, <<"green", "purple">>}]

\* what an edit made directly in the catalog store writes
EditValues == {[title |-> "Beanie", category |-> "beanie", base_price |-> 25]}

Upper(n) == [hex |-> n, upper |-> TRUE]

\* product_id strings: the first two products' ids as the service prints them,
\* and a string that is no ObjectId
RequestIds == {Str(1), Str(2), Malformed}

Colors == {"black", "purple"}

Quantities == {0, 1, 3}

\* None, "", " ", "S "
Texts == {None, Some(<<>>), Some(<<" ">>), Some(<<"S", " ">>)}

Items ==
  [product_id : RequestIds, color : Colors, quantity : Quantities,
   embroidery_text : Texts]

SeqsUpTo(S, n) == UNION {[1..k -> S] : k \in 0..n}

Payload(items) ==
  [customer_name |-> "Sam", customer_email |-> "sam@school.example",
   items |-> items]

\* POST /api/orders bodies: every sequence of at most MaxItems items
OrderPayloads == {Payload(items) : items \in SeqsUpTo(Items, MaxItems)}

Item(pid, color, quantity, text) ==
  [product_id |-> pid, color |-> color, quantity |-> quantity,
   embroidery_text |-> text]

\* the order bodies of the service specification: no item, one item, two
\* products, one product twice, a bad colour in second place, a bad quantity
\* in first place, a malformed id, the second product alone, and the first
\* product's id in uppercase digits
ServiceOrderPayloads ==
  {Payload(<<>>),
   Payload(<<Item(Str(1), "black", 3, Some(<<"S", " ">>))>>),
   Payload(<<Item(Str(2), "black", 1, None), Item(Str(1), "black", 3, Some(<<" ">>))>>),
   Payload(<<Item(Str(1), "black", 1, None), Item(Str(1), "black", 3, None)>>),
   Payload(<<Item(Str(1), "black", 1, None), Item(Str(2), "purple", 1, None)>>),
   Payload(<<Item(Str(1), "black", 0, None), Item(Str(2), "black", 1, None)>>),
   Payload(<<Item(Str(1), "black", 1, None), Item(Malformed, "black", 1, None)>>),
   Payload(<<Item(Str(2), "black", 1, None)>>),
   Payload(<<Item(Upper(1), "black", 1, None)>>)}

\* ------------------------------------------------------------------ actions
Init ==
  /\ products = <<>>
  /\ orders = <<>>
  /\ req = [op |-> "none"]
  /\ resp = NoResponse
  /\ dbCalls = <<>>

\* POST /api/products
CreateProduct(payload) ==
  LET r == create_product(products, payload)
  IN  /\ Len(r.products) <= MaxProducts
      /\ products' = r.products
      /\ req' = [op |-> "create_product", payload |-> payload]
      /\ resp' = r.resp
      /\ dbCalls' = r.dbCalls
      /\ UNCHANGED orders

\* an edit of a product's title, category and base_price made in the catalog
\* store, outside this service
EditProduct(i, v) ==
  /\ i \in 1..Len(products)
  /\ products' = [products EXCEPT ![i] = v @@ products[i]]
  /\ products' # products
  /\ req' = [op |-> "edit_product"]
  /\ resp' = NoResponse
  /\ dbCalls' = <<>>
  /\ UNCHANGED orders

\* POST /api/orders
CreateOrder(payload) ==
  LET r == create_order(products, orders, payload)
  IN  /\ Len(r.orders) <= MaxOrders
      /\ orders' = r.orders
      /\ req' = [op |-> "create_order", payload |-> payload]
      /\ resp' = r.resp
      /\ dbCalls' = r.dbCalls
      /\ UNCHANGED products

\* the service over its life: products are created and edited, orders placed
Next ==
  \/ \E payload \in ProductPayloads : CreateProduct(payload)
  \/ \E i \in 1..MaxProducts, v \in EditValues : EditProduct(i, v)
  \/ \E payload \in ServiceOrderPayloads : CreateOrder(payload)

Spec == Init /\ [][Next]_vars

\* product n of the catalog: the odd ones as create_product stored them, the
\* even ones after an edit
StoredProduct(n) ==
  IF n % 2 = 1
  THEN [_id |-> n, title |-> "Hoodie", category |-> "hoodie",
        base_price |-> 20, colors |-> <<"black">>]
  ELSE [_id |-> n, title |-> "Beanie", category |-> "beanie",
        base_price |-> 25, colors |-> <<"black">>]

\* the catalogs of the single-request specification: the first k products
Catalogs == {[n \in 1..k |-> StoredProduct(n)] : k \in 0..MaxProducts}

InitRequest ==
  /\ products \in Catalogs
  /\ orders = <<>>
  /\ req = [op |-> "none"]
  /\ resp = NoResponse
  /\ dbCalls = <<>>

\* one order request, with any body of at most MaxItems items
NextRequest ==
  /\ req.op = "none"
  /\ \E payload \in OrderPayloads : CreateOrder(payload)

SpecRequest == InitRequest /\ [][NextRequest]_vars

\* ------------------------------------------------------------- properties
IsOrderRequest == req.op = "create_order"

Accepted == IsOrderRequest /\ resp.status = 201

LastOrder == orders[Len(orders)]

PersistedItems == UNION {Range(orders[k].items) : k \in 1..Len(orders)}

RECURSIVE SumOfPrices(_)
SumOfPrices(its) ==
  IF its = <<>> THEN 0
  ELSE Head(its).unit_price * Head(its).quantity + SumOfPrices(Tail(its))

RECURSIVE SumOfFees(_)
SumOfFees(its) ==
  IF its = <<>> THEN 0
  ELSE Head(its).embroidery_fee * Head(its).quantity + SumOfFees(Tail(its))

\* C1: every persisted order has sub_total = sum of unit_price*quantity,
\* embroidery_total = sum of embroidery_fee*quantity and grand_total =
\* sub_total + embroidery_total, and the 201 response carries that grand_total.
C1_TotalsAreSums ==
  /\ \A k \in 1..Len(orders) :
       /\ orders[k].sub_total = SumOfPrices(orders[k].items)
       /\ orders[k].embroidery_total = SumOfFees(orders[k].items)
       /\ orders[k].grand_total = orders[k].sub_total + orders[k].embroidery_total
  /\ Accepted => resp.body.grand_total = LastOrder.grand_total

C1_Witness ==
  /\ Accepted
  /\ Len(LastOrder.items) = 2
  /\ LastOrder.items[1].quantity = 3
  /\ LastOrder.items[2].quantity = 1
  /\ LastOrder.items[1].embroidery_fee > 0
  /\ LastOrder.items[2].embroidery_fee > 0
  /\ LastOrder.grand_total = 127

\* the text is present and has a character that is not whitespace
NonBlank(text) ==
  /\ text # None
  /\ \E i \in 1..Len(text[1]) : text[1][i] \notin Whitespace

\* C5: a persisted item's embroidery_fee is 8 exactly when its embroidery_text
\* is present and non-blank after trimming, and 0 when it is absent, empty or
\* whitespace-only.
C5_EmbroideryFee ==
  \A it \in PersistedItems :
    it.embroidery_fee = IF NonBlank(it.embroidery_text) THEN 8 ELSE 0

C5_Witness ==
  /\ Accepted
  /\ Len(LastOrder.items) = 2
  /\ LastOrder.items[1].embroidery_text = Some(<<" ">>)
  /\ LastOrder.items[1].embroidery_fee = 0
  /\ LastOrder.items[2].embroidery_text = Some(<<"S", " ">>)
  /\ LastOrder.items[2].embroidery_fee = 8

\* the catalog's product that a product_id string denotes
Referenced(pid) == CHOOSE p \in Range(products) : p._id = ObjectId(pid)

\* C6: a persisted item's line_total is (unit_price + embroidery_fee) *
\* quantity, with unit_price the base_price of the referenced product as the
\* request found it and quantity the requested quantity (>= 1).
C6_LineTotal ==
  /\ \A it \in PersistedItems :
       /\ it.quantity >= 1
       /\ it.line_total = (it.unit_price + it.embroidery_fee) * it.quantity
  /\ Accepted =>
       \A i \in 1..Len(LastOrder.items) :
         /\ i <= Len(req.payload.items)
         /\ LastOrder.items[i].quantity = req.payload.items[i].quantity
         /\ LastOrder.items[i].unit_price =
              Referenced(req.payload.items[i].product_id).base_price

C6_Witness ==
  /\ Accepted
  /\ Len(LastOrder.items) = 2
  /\ LastOrder.items[1].unit_price = 25
  /\ LastOrder.items[1].embroidery_fee = 8
  /\ LastOrder.items[1].quantity = 3
  /\ LastOrder.items[1].line_total = 99
  /\ LastOrder.items[2].unit_price = 20

\* C7: an accepted request's order has as many items as the request, and its
\* i-th item carries the i-th requested product_id, color, quantity and
\* embroidery_text.
C7_ItemOrderPreserved ==
  Accepted =>
    /\ Len(LastOrder.items) = Len(req.payload.items)
    /\ \A i \in 1..Len(req.payload.items) :
         /\ LastOrder.items[i].product_id = req.payload.items[i].product_id
         /\ LastOrder.items[i].color = req.payload.items[i].color
         /\ LastOrder.items[i].quantity = req.payload.items[i].quantity
         /\ LastOrder.items[i].embroidery_text = req.payload.items[i].embroidery_text

C7_Witness ==
  /\ Accepted
  /\ Len(req.payload.items) = 2
  /\ req.payload.items[1].product_id = Str(2)
  /\ req.payload.items[2].product_id = Str(1)
  /\ req.payload.items[1].quantity # req.payload.items[2].quantity
  /\ req.payload.items[1].embroidery_text # req.payload.items[2].embroidery_text

BadColor(it) == it.color \notin {"green", "black", "yellow", "white"}

BadQuantity(it) == it.quantity < 1

Unresolved(it) == \A p \in Range(products) : p._id # ObjectId(it.product_id)

\* the first requested item with a bad colour or a bad quantity
FirstBad(its) ==
  CHOOSE i \in 1..Len(its) :
    /\ BadColor(its[i]) \/ BadQuantity(its[i])
    /\ \A j \in 1..(i - 1) : ~BadColor(its[j]) /\ ~BadQuantity(its[j])

\* C10: the 400 message is that of the first failing check: items in request
\* order, colour before quantity; then 'Invalid product id' if any id is
\* malformed; then 'One or more products not found'.  A request with a bad
\* colour or quantity yields no product-id error and reads no catalog.
C10_FirstFailingCheck ==
  IsOrderRequest =>
    LET its == req.payload.items
        anyBad == \E i \in 1..Len(its) : BadColor(its[i]) \/ BadQuantity(its[i])
        anyMalformed == \E i \in 1..Len(its) : its[i].product_id = Malformed
        anyUnresolved == \E i \in 1..Len(its) : Unresolved(its[i])
    IN  /\ anyBad =>
              /\ resp.status = 400
              /\ resp.body.detail =
                   IF BadColor(its[FirstBad(its)])
                   THEN <<"Invalid color", its[FirstBad(its)].color>>
                   ELSE <<"Quantity must be >= 1">>
              /\ dbCalls = <<>>
        /\ ~anyBad /\ anyMalformed =>
              /\ resp.status = 400
              /\ resp.body.detail = <<"Invalid product id">>
              /\ dbCalls = <<>>
        /\ ~anyBad /\ ~anyMalformed /\ anyUnresolved =>
              /\ resp.status = 400
              /\ resp.body.detail = <<"One or more products not found">>
              /\ dbCalls = <<"find">>

C10_Witness ==
  /\ IsOrderRequest
  /\ Len(req.payload.items) = 2
  /\ BadQuantity(req.payload.items[1])
  /\ BadColor(req.payload.items[1])
  /\ req.payload.items[2].product_id = Malformed
  /\ Unresolved(req.payload.items[1])
  /\ resp.status = 400
  /\ resp.body.detail = <<"Invalid color", "purple">>

\* some requested item fails a validation: bad colour, bad quantity, malformed
\* product_id, or a product_id that resolves to no product of the catalog
HasInvalidItem(its) ==
  \E i \in 1..Len(its) :
    \/ BadColor(its[i])
    \/ BadQuantity(its[i])
    \/ its[i].product_id = Malformed
    \/ Unresolved(its[i])

\* C2: an order request with an invalid item, in any position and whatever
\* its other items, leaves the set of persisted orders unchanged.
C2_RejectionPersistsNothing ==
  [][(req'.op = "create_order" /\ HasInvalidItem(req'.payload.items))
       => orders' = orders]_vars

C2_Witness ==
  /\ IsOrderRequest
  /\ Len(orders) >= 1
  /\ Len(req.payload.items) = 2
  /\ ~BadColor(req.payload.items[1])
  /\ ~BadQuantity(req.payload.items[1])
  /\ ~Unresolved(req.payload.items[1])
  /\ BadColor(req.payload.items[2])
  /\ ~Unresolved(req.payload.items[2])
  /\ resp.status = 400

\* C3: a request with two valid items that reference the same existing
\* product is accepted and persisted as two line items, one per requested
\* item, with totals summing both.
C3_DuplicateProductAccepted ==
  ( /\ IsOrderRequest
    /\ Len(req.payload.items) = 2
    /\ req.payload.items[1].product_id = req.payload.items[2].product_id
    /\ ~HasInvalidItem(req.payload.items) )
  => /\ resp.status = 201
     /\ Len(LastOrder.items) = 2
     /\ \A i \in 1..2 :
          LastOrder.items[i].quantity = req.payload.items[i].quantity
     /\ LastOrder.grand_total =
          LastOrder.items[1].line_total + LastOrder.items[2].line_total

\* C4: no persisted order has an empty items sequence.
C4_NoEmptyOrder == \A k \in 1..Len(orders) : Len(orders[k].items) >= 1

\* C8: a persisted order never changes afterwards, whatever is created,
\* edited or ordered later.
C8_OrdersFrozen ==
  [][/\ Len(orders') >= Len(orders)
     /\ \A k \in 1..Len(orders) : orders'[k] = orders[k]]_vars

C8_Witness ==
  /\ Len(orders) = 2
  /\ Len(orders[1].items) >= 1
  /\ orders[1].items[1].title = "Hoodie"
  /\ orders[1].items[1].unit_price = 20
  /\ Referenced(orders[1].items[1].product_id).title = "Beanie"
  /\ Referenced(orders[1].items[1].product_id).base_price = 25
  /\ orders[2].items # orders[1].items

ValidProduct(p) ==
  /\ p.category \in {"hoodie", "beanie", "shirt", "trackpants"}
  /\ \A i \in 1..Len(p.colors) : p.colors[i] \in {"green", "black", "yellow", "white"}
  /\ p.base_price >= 0

\* C9: every product of the catalog has an allowed category, allowed colours
\* and base_price >= 0, and a creation request violating any of these leaves
\* the catalog unchanged.
C9_OnlyValidProducts ==
  [][/\ \A i \in 1..Len(products') : ValidProduct(products'[i])
     /\ (req'.op = "create_product" /\ ~ValidProduct(req'.payload))
          => products' = products]_vars

C9_Witness ==
  /\ req.op = "create_product"
  /\ req.payload.category \in allowed_cats
  /\ req.payload.colors = <<"black">>
  /\ req.payload.base_price < 0
  /\ resp.status = 500
  /\ Len(products) = 1

====
